---------------------------- MODULE Spec2Model ----------------------------
(***************************************************************************)
(* Question Similarity Detector (src/app.py).                              *)
(*                                                                         *)
(* app.py is a Streamlit script: every interaction of a user with a        *)
(* widget (typing in a text area, moving the threshold slider, pressing    *)
(* the Compare button) re-executes the whole script top to bottom for that *)
(* user's session.  The widget values persist in the session; the value of *)
(* st.button is True only in the run its press triggered.  Everything the  *)
(* page shows is what the latest run rendered.                             *)
(*                                                                         *)
(* helper.query_point_creator is not part of src/: it is modelled from     *)
(* spec.md (sections 3, 4.1, 4.4, 4.5, 4.6).                               *)
(*                                                                         *)
(* Strings are sequences of one-character strings.  Real numbers r >= 0    *)
(* are kept exactly as records [num, den2] standing for num / sqrt(den2);  *)
(* the slider's threshold is kept in hundredths.                           *)
(***************************************************************************)
EXTENDS Integers, Sequences, FiniteSets, TLC

VARIABLES
    widgets,          \* session -> [q1, q2, similarity_threshold]
    run,              \* session -> the locals of the session's script run
    display,          \* session -> what the session's latest run rendered
    LOTTIE_AVAILABLE, \* module flag of app.py, set by the guarded import
    net               \* url -> what a GET of that animation url yields

vars == <<widgets, run, display, LOTTIE_AVAILABLE, net>>

---------------------------------------------------------------------------
(* Bounds of the model.                                                    *)

\* Longest text typed into a text area in the interactive specifications.
MaxTyped == 1
\* Longest question of the specification that sweeps the comparison itself.
MaxLen == 3
\* Sessions running their scripts concurrently in SpecConc.
NumSessions == 2

---------------------------------------------------------------------------
(* Characters and strings.                                                 *)

Whitespace == {" "}
Punctuation == {"?"}
Letters == {"a", "b"}
Alphabet == Whitespace \cup Punctuation \cup Letters

RECURSIVE StringsOfLen(_)
StringsOfLen(n) ==
    IF n = 0 THEN {<<>>}
    ELSE {Append(s, c) : s \in StringsOfLen(n - 1), c \in Alphabet}

StringsUpTo(n) == UNION {StringsOfLen(k) : k \in 0..n}

\* Python str.strip(): leading and trailing whitespace removed.
RECURSIVE LStrip(_)
LStrip(s) ==
    IF s # <<>> /\ Head(s) \in Whitespace THEN LStrip(Tail(s)) ELSE s

RECURSIVE RStrip(_)
RStrip(s) ==
    IF s # <<>> /\ s[Len(s)] \in Whitespace
    THEN RStrip(SubSeq(s, 1, Len(s) - 1))
    ELSE s

Strip(s) == LStrip(RStrip(s))

---------------------------------------------------------------------------
(* helper.query_point_creator, from spec.md.                               *)

\* 4.1 (f): punctuation is taken out, the word boundary it marks is kept.
StripPunctuation(s) ==
    [i \in 1..Len(s) |-> IF s[i] \in Punctuation THEN " " ELSE s[i]]

\* 4.1 (g): runs of whitespace collapse to one blank; the result is trimmed.
RECURSIVE CollapseWhitespace(_)
CollapseWhitespace(s) ==
    IF Len(s) < 2 THEN s
    ELSE IF s[1] \in Whitespace /\ s[2] \in Whitespace
         THEN CollapseWhitespace(Tail(s))
         ELSE <<s[1]>> \o CollapseWhitespace(Tail(s))

\* 4.1: steps (a) to (e) rewrite only characters outside Alphabet (capitals,
\* currency symbols, digits with magnitude suffixes, apostrophes, markup).
Normalize(s) == Strip(CollapseWhitespace(StripPunctuation(s)))

\* 3: the token sequence of a normalized question, split on whitespace.
RECURSIVE SplitFrom(_, _)
SplitFrom(s, cur) ==
    IF s = <<>> THEN (IF cur = <<>> THEN <<>> ELSE <<cur>>)
    ELSE IF Head(s) \in Whitespace
         THEN (IF cur = <<>> THEN <<>> ELSE <<cur>>) \o SplitFrom(Tail(s), <<>>)
         ELSE SplitFrom(Tail(s), Append(cur, Head(s)))

Tokens(s) == SplitFrom(s, <<>>)

\* 3: the frozen vocabulary, token -> column; its dimension D is 2 here.
Vocabulary == {<<"a">>, <<"b">>}

\* 4.4: position w of the embedding counts the occurrences of token w.
Count(w, toks) == Cardinality({i \in 1..Len(toks) : toks[i] = w})

RECURSIVE DotOver(_, _, _)
DotOver(ws, t1, t2) ==
    IF ws = {} THEN 0
    ELSE LET w == CHOOSE x \in ws : TRUE
         IN Count(w, t1) * Count(w, t2) + DotOver(ws \ {w}, t1, t2)

Dot(t1, t2) == DotOver(Vocabulary, t1, t2)

\* Real numbers: [num, den2] stands for num / sqrt(den2), den2 > 0.
Real(n) == [num |-> n, den2 |-> 1]
Zero == Real(0)
One == Real(1)
\* x >= t / 100: the comparison, were it not strict.
GeHundredths(x, t) == 10000 * x.num * x.num >= t * t * x.den2
\* x > t / 100, for x >= 0 and t >= 0.
GtHundredths(x, t) == 10000 * x.num * x.num > t * t * x.den2
\* x < t / 100, for x >= 0 and t >= 0.
LtHundredths(x, t) == 10000 * x.num * x.num < t * t * x.den2
IsOne(x) == x.num > 0 /\ x.num * x.num = x.den2
IsZero(x) == x.num = 0
InUnitInterval(x) == x.den2 > 0 /\ x.num >= 0 /\ x.num * x.num <= x.den2

\* 4.5: clamped into [0, 1].
Clamp(x) ==
    IF x.num < 0 THEN Zero
    ELSE IF x.num * x.num > x.den2 THEN One
    ELSE x

\* 4.5: dot(a,b) / (|a| |b|), and 0 when either norm is 0.
Cosine(t1, t2) ==
    LET ab == Dot(t1, t2)
        aa == Dot(t1, t1)
        bb == Dot(t2, t2)
    IN IF aa = 0 \/ bb = 0
       THEN Zero
       ELSE Clamp([num |-> ab, den2 |-> aa * bb])

\* 4.6 and 3: the groups of the vector, in order, and their sizes.
BasicCount == 7
TokenCount == 8
LengthCount == 3
FuzzyCount == 4

\* The extractors of 4.2 and 4.3 are not computed here: a field of theirs is
\* any value of its documented range, sampled at the two ends of the range.
RangeEnds == {"lo", "hi"}
GroupValue(g, e) ==
    IF e = "lo" THEN 0
    ELSE IF g = "token" THEN 1
    ELSE 100

Field(g, x) == [group |-> g, num |-> x.num, den2 |-> x.den2]

Block(g, n, e) == [i \in 1..n |-> Field(g, Real(GroupValue(g, e)))]

\* 4.6: basic, token, length, fuzzy, cosine similarity, in this order.
Assemble(cos, e) ==
    Block("basic", BasicCount, e) \o Block("token", TokenCount, e)
        \o Block("length", LengthCount, e) \o Block("fuzzy", FuzzyCount, e)
        \o <<Field("cosine", cos)>>

\* The messages the helper may return beside the vector.
ResultMessages == {"Duplicate", "Not Duplicate"}

\* helper.query_point_creator(q1, q2): the (query, result_message) pairs it
\* may return, each with the normalized questions its extractors and its
\* embedder were handed.
QueryPointCreator(q1, q2) ==
    LET n1 == Normalize(q1)
        n2 == Normalize(q2)
        cos == Cosine(Tokens(n1), Tokens(n2))
    IN {[query |-> Assemble(cos, e),
         result_message |-> m,
         normalized |-> <<n1, n2>>] : e \in RangeEnds, m \in ResultMessages}

---------------------------------------------------------------------------
(* src/app.py: constants.                                                  *)

\* st.slider(min_value=0.5, max_value=1.0, value=0.85, step=0.01), in
\* hundredths.
SliderMin == 50
SliderMax == 100
SliderDefault == 85
SliderStep == 1

SliderValues ==
    {v \in SliderMin..SliderMax : (v - SliderMin) % SliderStep = 0}

\* The last fuzzy field, one before the cosine similarity.
CosineIndexFuzzy == 22 - 1
\* cosine_sim = query[0, 22]
CosineIndex == 22

\* The slices query[0, lo:hi] of the Raw Data tab, as <<lo, hi>>.
BasicSlice == <<0, 7>>
TokenSliceShort == <<7, 14>>
TokenSlice == <<7, 15>>
LengthSlice == <<15, 18>>
FuzzySlice == <<18, 22>>

\* The "Feature" columns shown beside the slices.
BasicLabels ==
    <<"Q1 Length", "Q2 Length", "Q1 Word Count", "Q2 Word Count",
      "Common Words", "Total Words", "Common/Total Ratio">>
TokenLabels ==
    <<"Common Word Ratio", "Word Ratio Max", "Stop Word Ratio",
      "Stop Word Ratio Max", "Token Ratio", "Token Ratio Max",
      "Last Word Match", "First Word Match">>
LengthLabels ==
    <<"Absolute Length Diff", "Average Token Length",
      "Longest Common Substring Ratio">>
FuzzyLabels ==
    <<"Fuzz Ratio", "Partial Ratio", "Token Sort Ratio", "Token Set Ratio">>

\* The two animation urls, by the variable each is loaded into.
Urls == {"lottie_compare", "lottie_success"}

\* What a GET of an animation url may yield: status 200 with a JSON body that
\* is truthy or falsy in Python, another status, an exception raised by
\* requests.get, an exception raised by r.json().
NetOutcomes == {"ok", "ok_falsy", "bad_status", "get_raises", "json_raises"}

---------------------------------------------------------------------------
(* src/app.py: functions and the parts of the script.                      *)

Min(a, b) == IF a < b THEN a ELSE b

\* query[i] read as if indices started at 1.
IndexOneBased(query, i) == query[i]

\* numpy's query[0, i].
Index(query, i) == query[i + 1]

\* numpy's query[0, lo:hi]: the index the slice starts at and, in order, the
\* group of each element it holds (element k was read from index first + k).
PySlice(query, bounds) ==
    LET lo == bounds[1]
        hi == Min(bounds[2], Len(query))
    IN [first |-> lo,
        groups |-> [k \in 1..(IF hi > lo THEN hi - lo ELSE 0) |->
                       query[lo + k].group]]

\* load_lottieurl without its check of r.status_code.
load_lottieurl_any_status(available, outcome) ==
    IF ~available THEN [requests |-> 0, outcome |-> "none", ret |-> "None"]
    ELSE [requests |-> 1,
          outcome |-> outcome,
          ret |-> CASE outcome = "get_raises" -> "None"
                    [] outcome = "json_raises" -> "None"
                    [] outcome = "ok_falsy" -> "falsy_json"
                    [] OTHER -> "json"]

NoLoad == [requests |-> 0, outcome |-> "none", ret |-> "None"]

\* load_lottieurl(url): what it returns, the request it made and what the
\* request yielded.
load_lottieurl(available, outcome) ==
    IF ~available THEN NoLoad
    ELSE [requests |-> 1,
          outcome |-> outcome,
          ret |-> CASE outcome = "get_raises" -> "None"
                    [] outcome = "bad_status" -> "None"
                    [] outcome = "json_raises" -> "None"
                    [] outcome = "ok_falsy" -> "falsy_json"
                    [] OTHER -> "json"]

Truthy(ret) == ret = "json"

\* if LOTTIE_AVAILABLE: load, then st_lottie or the icon; else the icon.
RenderAnimation(available, outcome) ==
    IF available
    THEN LET lottie == load_lottieurl(available, outcome)
         IN [load |-> lottie,
             shown |-> IF Truthy(lottie.ret) THEN "animation" ELSE "icon"]
    ELSE [load |-> NoLoad, shown |-> "icon"]

\* The guard without the calls of strip().
IsBlankPairUnstripped(q1, q2) == q1 = <<>> \/ q2 = <<>>

\* q1.strip() == "" or q2.strip() == ""
IsBlankPair(q1, q2) == Strip(q1) = <<>> \/ Strip(q2) = <<>>

\* The colour of the similarity meter.
MeterColour(x) ==
    IF LtHundredths(x, 30) THEN "red"
    ELSE IF LtHundredths(x, 70) THEN "yellow"
    ELSE "green"

\* The verdict, were the comparison >=.
VerdictAtLeast(cosine_sim, similarity_threshold) ==
    IF GeHundredths(cosine_sim, similarity_threshold)
    THEN "duplicate"
    ELSE "not_duplicate"

\* if cosine_sim > similarity_threshold: ... else: ...
Verdict(cosine_sim, similarity_threshold) ==
    IF GtHundredths(cosine_sim, similarity_threshold)
    THEN "duplicate"
    ELSE "not_duplicate"

NoScore == [num |-> -1, den2 |-> 1]
NoSlice == [first |-> 0, groups |-> <<>>]
NoRaw ==
    [basic |-> NoSlice, token |-> NoSlice, length |-> NoSlice,
     fuzzy |-> NoSlice]
NoLabels == [basic |-> 0, token |-> 0, length |-> 0, fuzzy |-> 0]

\* What a run has rendered once the sidebar and the widgets are drawn.
PageTop(sidebar) ==
    [sidebar |-> sidebar.shown,
     warning |-> FALSE, success |-> FALSE,
     score |-> NoScore, meter |-> "none",
     verdict |-> "none", result_anim |-> "none",
     raw |-> NoRaw, labels |-> NoLabels]

\* The Raw Data tab: the four slices and the number of labels beside each.
\* (The chart tabs read query[0, 7:15], query[0, 18:22] and query[0, 0:3]
\* again and draw them; nothing else depends on what they draw.)
RawTab(query) ==
    [basic |-> PySlice(query, BasicSlice), token |-> PySlice(query, TokenSlice),
     length |-> PySlice(query, LengthSlice), fuzzy |-> PySlice(query, FuzzySlice)]

RawLabels ==
    [basic |-> Len(BasicLabels), token |-> Len(TokenLabels),
     length |-> Len(LengthLabels), fuzzy |-> Len(FuzzyLabels)]

\* The result card: everything rendered from cosine_sim on.
ResultCard(top, query, cosine_sim, similarity_threshold, success_anim) ==
    [top EXCEPT
        !.success = TRUE,
        !.score = cosine_sim,
        !.meter = MeterColour(cosine_sim),
        !.verdict = Verdict(cosine_sim, similarity_threshold),
        !.result_anim = success_anim.shown,
        !.raw = RawTab(query),
        !.labels = RawLabels]

\* Lines 148-195: the slider, the sidebar animation, the two text areas and
\* the button are drawn; the run holds the values the widgets gave it.
Begin(w, button, available, n) ==
    LET sidebar == RenderAnimation(available, n["lottie_compare"])
    IN [run |-> [pc |-> "guard", compare_button |-> button,
                 similarity_threshold |-> w.similarity_threshold,
                 q1 |-> w.q1, q2 |-> w.q2,
                 calls |-> 0, normalized |-> <<>>, fields |-> 0,
                 query |-> <<>>, result_message |-> "none",
                 cosine_sim |-> NoScore, cosine_group |-> "none",
                 lottie_compare |-> sidebar.load, lottie_success |-> NoLoad],
        display |-> PageTop(sidebar)]

\* Lines 198-201: if compare_button: if blank: st.warning(...) else: ...
GuardStep(st) ==
    IF ~st.run.compare_button
    THEN [st EXCEPT !.run.pc = "done"]
    ELSE IF IsBlankPair(st.run.q1, st.run.q2)
    THEN [st EXCEPT !.run.pc = "done", !.display.warning = TRUE]
    ELSE [st EXCEPT !.run.pc = "helper"]

\* Lines 208-211: query, result_message = helper.query_point_creator(q1, q2)
\* and cosine_sim = query[0, 22]; h is what the helper returned.
HelperStep(st, h) ==
    [st EXCEPT
        !.run.pc = "render",
        !.run.calls = @ + 1,
        !.run.normalized = h.normalized,
        !.run.fields = Len(h.query),
        !.run.query = h.query,
        !.run.result_message = h.result_message,
        !.run.cosine_sim = LET f == Index(h.query, CosineIndex)
                           IN [num |-> f.num, den2 |-> f.den2],
        !.run.cosine_group = Index(h.query, CosineIndex).group]

\* Lines 214-426: the result card, the success animation, the tabs.  The
\* vector and the message are locals and are gone when the run ends.
RenderStep(st, available, n) ==
    LET success_anim == RenderAnimation(available, n["lottie_success"])
    IN [run |-> [st.run EXCEPT
                    !.pc = "done",
                    !.query = <<>>,
                    !.result_message = "none",
                    !.lottie_success = success_anim.load],
        display |-> ResultCard(st.display, st.run.query, st.run.cosine_sim,
                               st.run.similarity_threshold, success_anim)]

\* One execution of the script, top to bottom: every way it can end.
Script(w, button, available, n) ==
    LET g == GuardStep(Begin(w, button, available, n))
    IN IF g.run.pc = "done" THEN {g}
       ELSE {RenderStep(HelperStep(g, h), available, n) :
                h \in QueryPointCreator(g.run.q1, g.run.q2)}

---------------------------------------------------------------------------
(* The interactions of a user: each changes a widget and reruns the script.*)

Sessions == DOMAIN widgets

\* A rerun that leaves the result card of the run before it on the page when
\* the button was not pressed.
RerunKeepsResult(s, w, button) ==
    /\ run[s].pc = "done"
    /\ widgets' = [widgets EXCEPT ![s] = w]
    /\ \E st \in Script(w, button, LOTTIE_AVAILABLE, net) :
          /\ run' = [run EXCEPT ![s] = st.run]
          /\ display' = IF button THEN [display EXCEPT ![s] = st.display]
                        ELSE display
    /\ UNCHANGED <<LOTTIE_AVAILABLE, net>>

Rerun(s, w, button) ==
    /\ run[s].pc = "done"
    /\ widgets' = [widgets EXCEPT ![s] = w]
    /\ \E st \in Script(w, button, LOTTIE_AVAILABLE, net) :
          /\ run' = [run EXCEPT ![s] = st.run]
          /\ display' = [display EXCEPT ![s] = st.display]
    /\ UNCHANGED <<LOTTIE_AVAILABLE, net>>

TypeQ1 ==
    \E s \in Sessions, c \in Alphabet :
        /\ Len(widgets[s].q1) < MaxTyped
        /\ Rerun(s, [widgets[s] EXCEPT !.q1 = Append(@, c)], FALSE)

EraseQ1 ==
    \E s \in Sessions :
        /\ widgets[s].q1 # <<>>
        /\ Rerun(s, [widgets[s] EXCEPT !.q1 = SubSeq(@, 1, Len(@) - 1)], FALSE)

TypeQ2 ==
    \E s \in Sessions, c \in Alphabet :
        /\ Len(widgets[s].q2) < MaxTyped
        /\ Rerun(s, [widgets[s] EXCEPT !.q2 = Append(@, c)], FALSE)

EraseQ2 ==
    \E s \in Sessions :
        /\ widgets[s].q2 # <<>>
        /\ Rerun(s, [widgets[s] EXCEPT !.q2 = SubSeq(@, 1, Len(@) - 1)], FALSE)

MoveSlider ==
    \E s \in Sessions, v \in SliderValues :
        /\ v \in {widgets[s].similarity_threshold - SliderStep,
                  widgets[s].similarity_threshold + SliderStep}
        /\ Rerun(s, [widgets[s] EXCEPT !.similarity_threshold = v], FALSE)

PressCompare == \E s \in Sessions : Rerun(s, widgets[s], TRUE)

\* The page as a session first sees it, for given widget values: the script
\* has run once, with the button not pressed.
Loaded(w, available, n) ==
    CHOOSE st \in Script(w, FALSE, available, n) : TRUE

AllOk == [u \in Urls |-> "ok"]

FreshWidgets ==
    [q1 |-> <<>>, q2 |-> <<>>, similarity_threshold |-> SliderDefault]

Init ==
    /\ LOTTIE_AVAILABLE = TRUE
    /\ net = AllOk
    /\ widgets = [s \in {1} |-> FreshWidgets]
    /\ run = [s \in {1} |-> Loaded(FreshWidgets, TRUE, AllOk).run]
    /\ display = [s \in {1} |-> Loaded(FreshWidgets, TRUE, AllOk).display]

Next ==
    \/ TypeQ1
    \/ EraseQ1
    \/ TypeQ2
    \/ EraseQ2
    \/ MoveSlider
    \/ PressCompare

Spec == Init /\ [][Next]_vars

---------------------------------------------------------------------------
(* The comparison itself, over every pair of questions up to MaxLen.       *)

PipeThresholds == {SliderDefault}

InitPipe ==
    /\ LOTTIE_AVAILABLE = TRUE
    /\ net = AllOk
    /\ \E a \in StringsUpTo(MaxLen), b \in StringsUpTo(MaxLen),
          t \in PipeThresholds :
          LET w == [q1 |-> a, q2 |-> b, similarity_threshold |-> t]
          IN /\ widgets = [s \in {1} |-> w]
             /\ run = [s \in {1} |-> Loaded(w, TRUE, AllOk).run]
             /\ display = [s \in {1} |-> Loaded(w, TRUE, AllOk).display]

NextPipe == PressCompare

SpecPipe == InitPipe /\ [][NextPipe]_vars

---------------------------------------------------------------------------
(* The animations, over every outcome of the import and of the two GETs.   *)

InitLottie ==
    /\ LOTTIE_AVAILABLE \in BOOLEAN
    /\ net \in [Urls -> NetOutcomes]
    /\ \E a \in StringsUpTo(MaxTyped), b \in StringsUpTo(MaxTyped) :
          LET w == [q1 |-> a, q2 |-> b, similarity_threshold |-> SliderDefault]
          IN /\ widgets = [s \in {1} |-> w]
             /\ run = [s \in {1} |-> Loaded(w, LOTTIE_AVAILABLE, net).run]
             /\ display =
                    [s \in {1} |-> Loaded(w, LOTTIE_AVAILABLE, net).display]

NextLottie == PressCompare

SpecLottie == InitLottie /\ [][NextLottie]_vars

---------------------------------------------------------------------------
(* Sessions comparing concurrently: a run of the script is a thread of its *)
(* session, and the runs of different sessions interleave line by line.    *)

ConcQuestions == {<<>>, <<"a">>, <<"a", " ", "b">>}
ConcThresholds == {SliderMin, SliderDefault}
ConcWidgets ==
    [q1 : ConcQuestions, q2 : ConcQuestions,
     similarity_threshold : ConcThresholds]

ConcPress(s) ==
    /\ s \in Sessions
    /\ run[s].pc = "done"
    /\ LET st == Begin(widgets[s], TRUE, LOTTIE_AVAILABLE, net)
       IN /\ run' = [run EXCEPT ![s] = st.run]
          /\ display' = [display EXCEPT ![s] = st.display]
    /\ UNCHANGED <<widgets, LOTTIE_AVAILABLE, net>>

ConcGuard(s) ==
    /\ s \in Sessions
    /\ run[s].pc = "guard"
    /\ LET st == GuardStep([run |-> run[s], display |-> display[s]])
       IN /\ run' = [run EXCEPT ![s] = st.run]
          /\ display' = [display EXCEPT ![s] = st.display]
    /\ UNCHANGED <<widgets, LOTTIE_AVAILABLE, net>>

ConcHelper(s) ==
    /\ s \in Sessions
    /\ run[s].pc = "helper"
    /\ \E h \in QueryPointCreator(run[s].q1, run[s].q2) :
          LET st == HelperStep([run |-> run[s], display |-> display[s]], h)
          IN /\ run' = [run EXCEPT ![s] = st.run]
             /\ display' = [display EXCEPT ![s] = st.display]
    /\ UNCHANGED <<widgets, LOTTIE_AVAILABLE, net>>

\* The rendering, were cosine_sim one variable shared by the sessions (the
\* first session's).
ConcRenderShared(s) ==
    /\ s \in Sessions
    /\ run[s].pc = "render"
    /\ LET shared == [run[s] EXCEPT !.cosine_sim = run[1].cosine_sim]
           st == RenderStep([run |-> shared, display |-> display[s]],
                            LOTTIE_AVAILABLE, net)
       IN /\ run' = [run EXCEPT ![s] = st.run]
          /\ display' = [display EXCEPT ![s] = st.display]
    /\ UNCHANGED <<widgets, LOTTIE_AVAILABLE, net>>

ConcRender(s) ==
    /\ s \in Sessions
    /\ run[s].pc = "render"
    /\ LET st == RenderStep([run |-> run[s], display |-> display[s]],
                            LOTTIE_AVAILABLE, net)
       IN /\ run' = [run EXCEPT ![s] = st.run]
          /\ display' = [display EXCEPT ![s] = st.display]
    /\ UNCHANGED <<widgets, LOTTIE_AVAILABLE, net>>

InitConc ==
    /\ LOTTIE_AVAILABLE = TRUE
    /\ net = AllOk
    /\ widgets \in [1..NumSessions -> ConcWidgets]
    /\ run = [s \in 1..NumSessions |-> Loaded(widgets[s], TRUE, AllOk).run]
    /\ display =
           [s \in 1..NumSessions |-> Loaded(widgets[s], TRUE, AllOk).display]

ConcPressAny == \E s \in Sessions : ConcPress(s)
ConcGuardAny == \E s \in Sessions : ConcGuard(s)
ConcHelperAny == \E s \in Sessions : ConcHelper(s)
ConcRenderAny == \E s \in Sessions : ConcRender(s)

NextConc ==
    \/ ConcPressAny
    \/ ConcGuardAny
    \/ ConcHelperAny
    \/ ConcRenderAny

SpecConc == InitConc /\ [][NextConc]_vars

---------------------------------------------------------------------------
(* What the properties are stated with: the questions as the user typed    *)
(* them, read directly, without the operators of the helper or the script. *)

\* q is empty or has only whitespace in it.
AllWhitespace(q) == \A i \in 1..Len(q) : q[i] \in Whitespace

\* How often the word w stands in q as a whole word: between letters that
\* are not its own there is the start, the end, a blank or punctuation.
WordCount(w, q) ==
    Cardinality(
        {i \in 1..(Len(q) - Len(w) + 1) :
            /\ SubSeq(q, i, i + Len(w) - 1) = w
            /\ (i = 1 \/ q[i - 1] \notin Letters)
            /\ (i + Len(w) - 1 = Len(q) \/ q[i + Len(w)] \notin Letters)})

RECURSIVE WordDotOver(_, _, _)
WordDotOver(ws, p, q) ==
    IF ws = {} THEN 0
    ELSE LET w == CHOOSE x \in ws : TRUE
         IN WordCount(w, p) * WordCount(w, q) + WordDotOver(ws \ {w}, p, q)

\* The dot product of the bag-of-words vectors of p and q.
WordDot(p, q) == WordDotOver(Vocabulary, p, q)

HasVocabularyWord(q) == \E w \in Vocabulary : WordCount(w, q) > 0

\* dot(p,q) / (|p| |q|) > t / 100, the quotient being 0 when a norm is 0.
CosineExceeds(p, q, t) ==
    /\ WordDot(p, p) > 0
    /\ WordDot(q, q) > 0
    /\ 10000 * WordDot(p, q) * WordDot(p, q)
           > t * t * WordDot(p, p) * WordDot(q, q)

Pressed(s) == run[s].pc = "done" /\ run[s].compare_button

\* The indices a displayed slice holds.
SliceIndices(sl) == {sl.first + k - 1 : k \in 1..Len(sl.groups)}

AllOf(g, n) == [k \in 1..n |-> g]

\* What a run showed for its comparison.
Outcome(s) ==
    [warning |-> display[s].warning, success |-> display[s].success,
     score |-> display[s].score, verdict |-> display[s].verdict]

---------------------------------------------------------------------------
(* The claims.                                                             *)

\* C1: the helper is called in a run only if the Compare button was pressed
\* in that run and neither question is blank after trimming; when the button
\* is pressed and a question is blank, the warning is shown, the helper is
\* not called, and no success message, score or verdict is shown.
C1_GuardKeepsBlankOut ==
    \A s \in Sessions :
        /\ run[s].calls > 0 =>
              /\ run[s].compare_button
              /\ ~AllWhitespace(widgets[s].q1)
              /\ ~AllWhitespace(widgets[s].q2)
        /\ (Pressed(s) /\ (AllWhitespace(widgets[s].q1)
                            \/ AllWhitespace(widgets[s].q2))) =>
              /\ display[s].warning
              /\ run[s].calls = 0
              /\ ~display[s].success
              /\ display[s].score = NoScore
              /\ display[s].verdict = "none"

\* C1, witness: Compare pressed with a first question and a second question
\* of one blank; the warning is shown.
C1_Witness ==
    \E s \in Sessions :
        /\ Pressed(s)
        /\ ~AllWhitespace(widgets[s].q1)
        /\ widgets[s].q2 = <<" ">>
        /\ display[s].warning
        /\ run[s].calls = 0

\* C2: every successful comparison shows exactly one of the two verdicts, the
\* duplicate verdict exactly when the cosine similarity of the two questions
\* (field 22) is greater than the threshold, and the other verdict otherwise,
\* also when the two are equal; whatever the other fields and the message.
C2_VerdictIsScoreAboveThreshold ==
    \A s \in Sessions :
        /\ (Pressed(s) /\ ~display[s].warning) => display[s].success
        /\ display[s].success =>
              /\ display[s].verdict \in {"duplicate", "not_duplicate"}
              /\ display[s].verdict = "duplicate" <=>
                    CosineExceeds(widgets[s].q1, widgets[s].q2,
                                  widgets[s].similarity_threshold)

\* C2, witness: a comparison with the slider one step under its maximum,
\* shown as duplicates.
C2_Witness ==
    \E s \in Sessions :
        /\ display[s].success
        /\ widgets[s].similarity_threshold = SliderMax - SliderStep
        /\ display[s].verdict = "duplicate"

\* C3: the vector has 23 fields; the slices shown are 0:7 (basic), 7:15
\* (token), 15:18 (length), 18:22 (fuzzy), each holding only fields of its
\* group and as many as there are labels beside it (7, 8, 3, 4); the score is
\* read from the cosine field; the four slices and index 22 are pairwise
\* disjoint and cover 0..22.
C3_LayoutAndSlices ==
    \A s \in Sessions :
        display[s].success =>
            LET raw == display[s].raw
                b == SliceIndices(raw.basic)
                t == SliceIndices(raw.token)
                l == SliceIndices(raw.length)
                f == SliceIndices(raw.fuzzy)
                c == {CosineIndex}
            IN /\ run[s].fields = 23
               /\ raw.basic = [first |-> 0, groups |-> AllOf("basic", 7)]
               /\ raw.token = [first |-> 7, groups |-> AllOf("token", 8)]
               /\ raw.length = [first |-> 15, groups |-> AllOf("length", 3)]
               /\ raw.fuzzy = [first |-> 18, groups |-> AllOf("fuzzy", 4)]
               /\ display[s].labels =
                      [basic |-> 7, token |-> 8, length |-> 3, fuzzy |-> 4]
               /\ run[s].cosine_group = "cosine"
               /\ b \cup t \cup l \cup f \cup c = 0..22
               /\ Cardinality(b) + Cardinality(t) + Cardinality(l)
                      + Cardinality(f) + Cardinality(c) = 23

\* C3, witness: a comparison of two questions of three characters whose Raw
\* Data tab shows the four fuzzy fields from index 18 on.
C3_Witness ==
    \E s \in Sessions :
        /\ display[s].success
        /\ Len(widgets[s].q1) = 3
        /\ Len(widgets[s].q2) = 3
        /\ display[s].raw.fuzzy.first = 18
        /\ Len(display[s].raw.fuzzy.groups) = 4

\* C4, as claimed: comparing any non-blank question with an exact copy of
\* itself shows the score 1.0.
C4_IdentityForEveryQuestion ==
    \A s \in Sessions :
        (display[s].success /\ widgets[s].q1 = widgets[s].q2) =>
            IsOne(display[s].score)

\* C4, as amended: comparing a question that has at least one word of the
\* vocabulary with an exact copy of itself shows the score 1.0.
C4_IdentityWithVocabularyWord ==
    \A s \in Sessions :
        (/\ display[s].success
         /\ widgets[s].q1 = widgets[s].q2
         /\ HasVocabularyWord(widgets[s].q1)) =>
            IsOne(display[s].score)

\* C4, witness: "a b" compared with "a b" shows 1.0.
C4_Witness ==
    \E s \in Sessions :
        /\ display[s].success
        /\ widgets[s].q1 = <<"a", " ", "b">>
        /\ widgets[s].q2 = <<"a", " ", "b">>
        /\ IsOne(display[s].score)

\* C5: the score shown is a number in [0, 1]; it is dot(a,b) / (|a| |b|) of
\* the two count vectors when both norms are not 0, and 0 when either is.
C5_CosineDefinedInUnitInterval ==
    \A s \in Sessions :
        display[s].success =>
            LET x == display[s].score
                ab == WordDot(widgets[s].q1, widgets[s].q2)
                aa == WordDot(widgets[s].q1, widgets[s].q1)
                bb == WordDot(widgets[s].q2, widgets[s].q2)
            IN /\ InUnitInterval(x)
               /\ (aa > 0 /\ bb > 0) =>
                     x.num * x.num * aa * bb = ab * ab * x.den2
               /\ (aa = 0 \/ bb = 0) => IsZero(x)

\* C5, witness: a question without any word of the vocabulary compared with
\* one that has some shows the score 0.
C5_Witness ==
    \E s \in Sessions :
        /\ display[s].success
        /\ ~HasVocabularyWord(widgets[s].q1)
        /\ HasVocabularyWord(widgets[s].q2)
        /\ IsZero(display[s].score)

\* C6, as claimed: whenever the helper is called, both normalized questions
\* handed to its extractors and its embedder have at least one token.
C6_DownstreamNeverSeesEmpty ==
    \A s \in Sessions :
        run[s].calls > 0 =>
            \A i \in 1..Len(run[s].normalized) :
                /\ run[s].normalized[i] # <<>>
                /\ Tokens(run[s].normalized[i]) # <<>>

C8_ThresholdRangeAndNoDuplicateAtMax ==
    /\ \A s \in Sessions : widgets[s].similarity_threshold = 85
    /\ [](\A s \in Sessions :
            /\ widgets[s].similarity_threshold \in 50..100
            /\ widgets[s].similarity_threshold = 100 =>
                   display[s].verdict # "duplicate")

\* C8, witness: a question compared with itself at the threshold 1.00: the
\* score is 1.0 and the verdict is "not duplicates".
C8_Witness ==
    \E s \in Sessions :
        /\ widgets[s].similarity_threshold = 100
        /\ widgets[s].q1 = widgets[s].q2
        /\ IsOne(display[s].score)
        /\ display[s].verdict = "not_duplicate"

\* C9: a score and a verdict are on the page only after the run the button
\* press triggered; the verdict on the page is always that of the questions
\* and the threshold the widgets hold now; a run calls the helper at most
\* once.
C9_NoStaleVerdict ==
    \A s \in Sessions :
        /\ run[s].calls <= 1
        /\ (\/ display[s].success
            \/ display[s].score # NoScore
            \/ display[s].verdict # "none") =>
              /\ run[s].compare_button
              /\ display[s].score # NoScore
              /\ display[s].verdict =
                     IF CosineExceeds(widgets[s].q1, widgets[s].q2,
                                      widgets[s].similarity_threshold)
                     THEN "duplicate"
                     ELSE "not_duplicate"

\* C9, witness: after an interaction that is not a press of the button (the
\* slider is off its default, both questions are typed) nothing of a result
\* is on the page.
C9_Witness ==
    \E s \in Sessions :
        /\ ~run[s].compare_button
        /\ widgets[s].similarity_threshold < SliderDefault
        /\ HasVocabularyWord(widgets[s].q1)
        /\ widgets[s].q1 = widgets[s].q2
        /\ display[s].verdict = "none"
        /\ ~display[s].success

\* The animation of a site: what the load returned and what was drawn.
SiteRight(load, shown, outcome) ==
    /\ shown \in {"animation", "icon"}
    /\ ~LOTTIE_AVAILABLE => load.requests = 0 /\ load.ret = "None"
    /\ LOTTIE_AVAILABLE =>
          /\ load.requests = 1
          /\ outcome \in {"bad_status", "get_raises", "json_raises"} =>
                 load.ret = "None"
          /\ outcome = "ok" => load.ret = "json"
          /\ outcome = "ok_falsy" => load.ret = "falsy_json"
    /\ shown = "icon" <=> (~LOTTIE_AVAILABLE \/ load.ret # "json")

\* C10: load_lottieurl returns None when Lottie is unavailable (and makes no
\* request), when the status is not 200, when the request or the decoding
\* raises, and the decoded JSON on a 200; each site draws exactly one of the
\* animation and the icon, the icon exactly when Lottie is unavailable or the
\* load returned a falsy value; and the result of a comparison is shown
\* whatever the loads did.
C10_AnimationLoadNeverFails ==
    /\ \A o \in NetOutcomes :
          load_lottieurl(FALSE, o) = [requests |-> 0, outcome |-> "none",
                                      ret |-> "None"]
    /\ \A s \in Sessions :
          /\ SiteRight(run[s].lottie_compare, display[s].sidebar,
                       net["lottie_compare"])
          /\ display[s].success =>
                SiteRight(run[s].lottie_success, display[s].result_anim,
                          net["lottie_success"])
          /\ ~display[s].success => display[s].result_anim = "none"
          /\ (/\ Pressed(s)
              /\ ~AllWhitespace(widgets[s].q1)
              /\ ~AllWhitespace(widgets[s].q2)) =>
                /\ display[s].success
                /\ display[s].verdict # "none"

\* C10, witness: Lottie is available, the GET of the sidebar animation ends
\* with a status other than 200 and that of the success animation raises;
\* the result is shown, with the icon at both sites.
C10_Witness ==
    \E s \in Sessions :
        /\ LOTTIE_AVAILABLE
        /\ net["lottie_compare"] = "bad_status"
        /\ net["lottie_success"] = "get_raises"
        /\ display[s].success
        /\ display[s].verdict # "none"
        /\ display[s].sidebar = "icon"
        /\ display[s].result_anim = "icon"

=============================================================================
